---- MODULE Spec2Model ----
(***************************************************************************)
(* Multi-chain wallet transfer and trustline activation of rozo-app-mobile *)
(*                                                                         *)
(*   - the Stellar provider (account snapshot), the trustline hook         *)
(*     (enableUsdc) and the Stellar transfer hook (transfer), against a    *)
(*     Horizon ledger account;                                             *)
(*   - the EVM token transfer hook and the axios client it posts through;  *)
(*   - the wallet provider (preferred chain, wallet creation, switch).     *)
(*                                                                         *)
(* Amounts of XLM are numbers of tenths of one XLM (1.5 XLM = 15).         *)
(***************************************************************************)
EXTENDS Integers, Sequences, FiniteSets, TLC

\* ------------------------------------------------------------------------
\* Bounds
\* ------------------------------------------------------------------------

\* highest ledger sequence number an accepted transaction may reach
MaxSeq == 2

\* the sign-ins of the other account of the device that are followed
MaxLogins == 2

\* ------------------------------------------------------------------------
\* Program constants
\* ------------------------------------------------------------------------

\* the activation threshold of enableUsdc, 1.5 XLM, in tenths of XLM
MinXlmTenths == 15

\* the invocations that may be in flight at the same time (double tap)
Procs == {1, 2}

\* the invocation of a caller that awaits each call before the next
Solo == {1}

\* native balances as Horizon reports them (decimal strings)
BalanceStrings == {"0.0000000", "1.2000000", "1.5000000", "2.0000000"}

\* parseFloat on the balance strings above, in tenths of XLM
parseFloat(s) ==
  CASE s = "0.0000000" -> 0
    [] s = "1.2000000" -> 12
    [] s = "1.5000000" -> 15
    [] s = "2.0000000" -> 20
    [] OTHER -> 0

\* user facing messages
MsgLogin == "Please ensure you are logged in and try again"
MsgInsufficient == "Insuficient XLM Balance, please make sure at least 1.5 XLM"
MsgAuthRetry == "Authentication expired. Please try again."
MsgAuthRelogin == "Authentication expired. Please refresh the page and log in again."
MsgEnabled == "USDC trustline enabled successfully!"
MsgAlreadyExists == "USDC trustline already exists on your account"
MsgEnableFallback == "Failed to enable USDC"
MsgTxFailed == "Transaction failed"
MsgTokenNotFound == "Token not found"

\* messages of the collaborators (remote signer, Horizon client)
RawSignAuth == "User must be authenticated"
RawSignRejected == "User rejected the request"
RawNotFound == "Not Found"
RawNetwork == "Network Error"
RawBadRequest == "Request failed with status code 400"

\* signError.message?.includes("authenticated") ||
\* signError.message?.includes("User must be authenticated")
isAuthMessage(m) == m \in {RawSignAuth, "Wallet not authenticated"}

\* ------------------------------------------------------------------------
\* State
\* ------------------------------------------------------------------------
VARIABLES
  user,                          \* useAuth().user is present
  isAuthenticated,               \* useAuth().isAuthenticated
  publicKey,                     \* StellarProvider: publicKey is set
  accountInfo,                   \* StellarProvider: last read account snapshot
  ledger,                        \* the Horizon account of publicKey
  isEnabling,                    \* useStellarTrustline
  showInsufficientBalanceDialog, \* useStellarTrustline
  balanceInfo,                   \* useStellarTrustline
  step,                          \* useStellarTransfer
  loadToast,                     \* StellarProvider: the last load showed an error toast
  lastLoad,                      \* StellarProvider: what the last load was answered
  inv,                           \* the invocations of enableUsdc / transfer
  privyLinked,                   \* the embedded wallets Privy holds for the user
  userLinked,                    \* user.linked_accounts as the client last read it
  merchant,                      \* useMerchant().merchant is present
  storageKV,                     \* the device storage behind getItem / setItem
  preferredPrimaryChain,         \* WalletProvider
  isCreating,                    \* WalletProvider
  isSwitching,                   \* WalletProvider
  sw,                            \* the invocation of switchWallet
  evm,                           \* useTokenTransfer: status and the invocation
  balances,                      \* WalletProvider: the balances state
  isBalanceLoading,              \* WalletProvider
  gb,                            \* the invocations of getBalance
  parked,                        \* the other account of this device, signed out
  pf,                            \* the last mount, load or set of the preference
  cw,                            \* the effects that create the default wallet
  session                        \* StellarProvider: publicKey and snapshot by address

stellarVars == <<user, isAuthenticated, publicKey, accountInfo, ledger,
                 isEnabling, showInsufficientBalanceDialog, balanceInfo,
                 step, loadToast, lastLoad, inv>>

walletVars == <<privyLinked, userLinked, merchant, storageKV,
                preferredPrimaryChain, isCreating, isSwitching, sw>>

balanceVars == <<balances, isBalanceLoading, gb>>

deviceVars == <<parked, pf>>

vars == <<stellarVars, walletVars, evm, balanceVars, deviceVars, cw, session>>

\* ------------------------------------------------------------------------
\* Horizon ledger account
\* ------------------------------------------------------------------------

\* the account before it is funded
LedgerUnfunded == [funded |-> FALSE, xlm |-> "0.0000000", trust |-> FALSE, seq |-> 0]

\* Horizon.AccountResponse | undefined | null
AccountUndefined == [st |-> "undefined", xlm |-> "0.0000000", trust |-> FALSE, seq |-> 0]
AccountNull == [st |-> "null", xlm |-> "0.0000000", trust |-> FALSE, seq |-> 0]
AccountResponse(l) == [st |-> "loaded", xlm |-> l.xlm, trust |-> l.trust, seq |-> l.seq]

\* outcomes of server.loadAccount(publicKey) against the ledger
LoadOutcomes(l) == (IF l.funded THEN {"ok"} ELSE {"notFound"}) \cup {"network"}

\* isAccountNotFound(error)
isAccountNotFound(outcome) == outcome = "notFound"

\* formatStellarBalancesAsWalletInfo(account.balances), [] without balances
formatStellarBalancesAsWalletInfo(account) ==
  IF account.st # "loaded" THEN <<>>
  ELSE <<[asset |-> "XLM", balance |-> account.xlm]>>
       \o (IF account.trust THEN <<[asset |-> "USDC", balance |-> "0.0000000"]>>
           ELSE <<>>)

\* formattedBalances: the balances of the snapshot
formattedBalances == formatStellarBalancesAsWalletInfo(accountInfo)

\* every snapshot with balances counts as holding the trustline
hasUsdcTrustline_funded == accountInfo.st = "loaded"

\* hasUsdcTrustline: a balance entry with the USDC code and issuer
hasUsdcTrustline == accountInfo.st = "loaded" /\ accountInfo.trust

\* what the ledger answers to a transaction with sequence number txSeq
\* carrying operation kind ("changeTrust" | "payment"); deny is the ledger's
\* own reason to refuse a payment (recipient without trustline)
LedgerVerdict(l, txSeq, kind, deny) ==
  IF ~l.funded \/ txSeq # l.seq + 1 THEN "tx_bad_seq"
  ELSE IF kind = "changeTrust" /\ l.trust THEN "op_already_exists"
  ELSE IF kind = "changeTrust" /\ parseFloat(l.xlm) < MinXlmTenths THEN "op_low_reserve"
  ELSE IF kind = "payment" /\ deny THEN "op_no_trust"
  ELSE "success"

\* the ledger after it applied an accepted transaction
LedgerApply(l, kind) ==
  [l EXCEPT !.seq = l.seq + 1,
            !.trust = IF kind = "changeTrust" THEN TRUE ELSE l.trust]

\* ------------------------------------------------------------------------
\* Stellar error helpers (libs/stellar/errors)
\* ------------------------------------------------------------------------

\* isTrustlineAlreadyExists(result)
isTrustlineAlreadyExists(result) == result = "op_already_exists"

\* getStellarErrorMessage(data): the human readable text for a raw ledger
\* result code; "undefined" is the absent value
getStellarErrorMessage(data) ==
  CASE data = "tx_bad_seq" -> "Transaction sequence is out of date. Please try again."
    [] data = "op_low_reserve" -> "Not enough XLM to cover the reserve of a new trustline."
    [] data = "op_no_trust" -> "The recipient cannot receive this asset."
    [] data = "op_already_exists" -> "The trustline already exists."
    [] OTHER -> "Transaction failed. Please try again."

\* the raw result codes of the ledger
RawCodes == {"tx_bad_seq", "op_low_reserve", "op_no_trust", "op_already_exists"}

\* ------------------------------------------------------------------------
\* Invocations
\* ------------------------------------------------------------------------

NoTx == [built |-> FALSE, seq |-> 0, src |-> 0, at |-> 0, signed |-> FALSE]

\* an invocation that has not started
InvIdle ==
  [op |-> "none", pc |-> "idle", account |-> AccountUndefined, tx |-> NoTx,
   trace |-> <<>>, submits |-> 0, refreshes |-> 0, refreshed |-> "none",
   raw |-> "", answer |-> "none", outcome |-> "none", msg |-> "",
   toasts |-> {}, rivals |-> {}, had |-> LedgerUnfunded, key |-> FALSE]

\* a new invocation of operation o whose closure holds the snapshot a; had
\* is the ledger account at the time of the call, key the public key seen
InvStart(o, a) ==
  [InvIdle EXCEPT !.op = o, !.account = a, !.had = ledger, !.key = publicKey]

\* the invocations in flight that have not yet submitted anything
Unsubmitted == {q \in Procs : inv[q].pc \notin {"idle", "done"} /\ inv[q].submits = 0}

\* the invocation table after p began the invocation r: r remembers the
\* invocations it overlaps with, the others forget p's previous invocation
Begin(p, r) ==
  [q \in Procs |-> IF q = p THEN [r EXCEPT !.rivals = Unsubmitted \ {p}]
                    ELSE [inv[q] EXCEPT !.rivals = @ \ {p}]]

CanStart(p) == inv[p].pc \in {"idle", "done"} /\ ledger.seq < MaxSeq

\* toast(level, message) shown by the invocation r
Toast(r, level, m) == [r EXCEPT !.toasts = @ \cup {<<level, m>>}]

\* the invocation r ends with the given outcome and message
Finish(r, o, m) == [r EXCEPT !.pc = "done", !.outcome = o, !.msg = m]

\* the catch block around the whole of enableUsdc:
\*   toastError(error.message || "Failed to enable USDC")
EnableCatch(r, m) ==
  Finish(Toast(r, "error", IF m = "" THEN MsgEnableFallback ELSE m), "error",
         IF m = "" THEN MsgEnableFallback ELSE m)

\* ------------------------------------------------------------------------
\* StellarProvider
\* ------------------------------------------------------------------------

\* setPublicKey(primaryWallet.address)
setPublicKey ==
  /\ ~publicKey
  /\ publicKey' = TRUE
  /\ UNCHANGED <<user, isAuthenticated, accountInfo, ledger, isEnabling,
                 showInsufficientBalanceDialog, balanceInfo, step, loadToast, lastLoad, inv>>
  /\ UNCHANGED <<walletVars, evm, balanceVars, deviceVars, cw, session>>

\* every failed load ends with the provider knowing nothing of the account
AccountAfterLoad_unset(o) ==
  IF o = "ok" THEN AccountResponse(ledger) ELSE AccountUndefined

\* the snapshot after getAccountInfo(publicKey) ended with the outcome o
AccountAfterLoad(o) ==
  IF o = "ok" THEN AccountResponse(ledger)
  ELSE IF isAccountNotFound(o) THEN AccountNull
  ELSE accountInfo

\* getAccountInfo shows a toast for every failure but the 404
ToastAfterLoad(o) == o # "ok" /\ ~isAccountNotFound(o)

\* refreshAccount(): if (publicKey) await getAccountInfo(publicKey)
refreshAccount ==
  /\ publicKey
  /\ \E o \in LoadOutcomes(ledger) :
       /\ accountInfo' = AccountAfterLoad(o)
       /\ loadToast' = ToastAfterLoad(o)
       /\ lastLoad' = o
  /\ UNCHANGED <<user, isAuthenticated, publicKey, ledger, isEnabling,
                 showInsufficientBalanceDialog, balanceInfo, step, inv>>
  /\ UNCHANGED <<walletVars, evm, balanceVars, deviceVars, cw, session>>

\* ------------------------------------------------------------------------
\* Environment: the ledger account receives XLM, the session changes
\* ------------------------------------------------------------------------

LedgerDeposit ==
  /\ \E x \in BalanceStrings :
       /\ parseFloat(x) > parseFloat(ledger.xlm)
       /\ ledger' = [ledger EXCEPT !.funded = TRUE, !.xlm = x]
  /\ UNCHANGED <<user, isAuthenticated, publicKey, accountInfo, isEnabling,
                 showInsufficientBalanceDialog, balanceInfo, step, loadToast, lastLoad, inv>>
  /\ UNCHANGED <<walletVars, evm, balanceVars, deviceVars, cw, session>>

\* ------------------------------------------------------------------------
\* useStellarTrustline: enableUsdc
\* ------------------------------------------------------------------------

\* the reserve gate: account?.balances is there and the native balance is
\* below the threshold
insufficientXlm(account) ==
  account.st = "loaded" /\ parseFloat(account.xlm) < MinXlmTenths

\* enableUsdc up to setIsEnabling(true)
enableUsdc_start(p) ==
  /\ CanStart(p)
  /\ LET r == InvStart("enableUsdc", accountInfo) IN
       IF ~isAuthenticated \/ ~user \/ ~publicKey
       THEN /\ inv' = Begin(p, Finish(Toast(r, "error", MsgLogin), "precondition",
                                        MsgLogin))
            /\ UNCHANGED <<isEnabling, showInsufficientBalanceDialog, balanceInfo>>
       ELSE IF insufficientXlm(accountInfo)
       THEN /\ balanceInfo' = [current |-> parseFloat(accountInfo.xlm),
                               required |-> MinXlmTenths]
            /\ showInsufficientBalanceDialog' = TRUE
            /\ inv' = Begin(p, Finish(Toast(r, "error", MsgInsufficient),
                                        "insufficient", MsgInsufficient))
            /\ UNCHANGED isEnabling
       ELSE /\ isEnabling' = TRUE
            /\ inv' = Begin(p, [r EXCEPT !.pc = "load"])
            /\ UNCHANGED <<showInsufficientBalanceDialog, balanceInfo>>
  /\ UNCHANGED <<user, isAuthenticated, publicKey, accountInfo, ledger, step, loadToast, lastLoad>>
  /\ UNCHANGED <<walletVars, evm, balanceVars, deviceVars, cw, session>>

\* the transaction built from an account object read while the ledger was
\* at sequence number `at`
BuildTx(account, at) ==
  [built |-> TRUE, seq |-> account.seq + 1, src |-> account.seq, at |-> at,
   signed |-> FALSE]

\* freshAccount = await server.loadAccount(publicKey); build; tx.hash()
enableUsdc_loadAccount(p) ==
  /\ inv[p].op = "enableUsdc" /\ inv[p].pc = "load"
  /\ \E o \in LoadOutcomes(ledger) :
       IF o = "ok"
       THEN /\ inv' = [inv EXCEPT ![p] =
                 [@ EXCEPT !.pc = "sign",
                           !.tx = BuildTx(AccountResponse(ledger), ledger.seq),
                           !.trace = @ \o <<"sequence", "build", "hash">>]]
            /\ UNCHANGED isEnabling
       ELSE /\ inv' = [inv EXCEPT ![p] =
                 EnableCatch(@, IF o = "notFound" THEN RawNotFound ELSE RawNetwork)]
            /\ isEnabling' = FALSE
  /\ UNCHANGED <<user, isAuthenticated, publicKey, accountInfo, ledger,
                 showInsufficientBalanceDialog, balanceInfo, step, loadToast, lastLoad>>
  /\ UNCHANGED <<walletVars, evm, balanceVars, deviceVars, cw, session>>

\* what signRawHash may answer
SignOutcomes == {"ok", "auth", "rejected"}
SignMessage(o) == IF o = "auth" THEN RawSignAuth ELSE RawSignRejected

\* the signature is requested but never attached
Signed_unattached(r) ==
  [r EXCEPT !.pc = "submit", !.trace = @ \o <<"sign">>]

\* the invocation after signRawHash returned a signature and it was attached
Signed(r) ==
  [r EXCEPT !.pc = "submit", !.tx = [@ EXCEPT !.signed = TRUE],
            !.trace = @ \o <<"sign", "attach">>]

\* signRawHash({address, chainType, hash}) and tx.addSignature
enableUsdc_sign(p) ==
  /\ inv[p].op = "enableUsdc" /\ inv[p].pc = "sign"
  /\ \E o \in SignOutcomes :
       IF o = "ok"
       THEN /\ inv' = [inv EXCEPT ![p] = Signed(@)]
            /\ UNCHANGED isEnabling
       ELSE IF isAuthMessage(SignMessage(o))
       THEN /\ inv' = [inv EXCEPT ![p] =
                 [@ EXCEPT !.pc = "refreshUser", !.raw = SignMessage(o),
                           !.trace = @ \o <<"sign">>]]
            /\ UNCHANGED isEnabling
       ELSE /\ inv' = [inv EXCEPT ![p] =
                 EnableCatch([@ EXCEPT !.raw = SignMessage(o),
                                       !.trace = @ \o <<"sign">>], SignMessage(o))]
            /\ isEnabling' = FALSE
  /\ UNCHANGED <<user, isAuthenticated, publicKey, accountInfo, ledger,
                 showInsufficientBalanceDialog, balanceInfo, step, loadToast, lastLoad>>
  /\ UNCHANGED <<walletVars, evm, balanceVars, deviceVars, cw, session>>

\* the signer's own message is shown when the refresh fails
EnableAuthMessage_raw(refreshed) == IF refreshed THEN MsgAuthRetry ELSE RawSignAuth

\* the message enableUsdc shows after the session refresh
EnableAuthMessage(refreshed) == IF refreshed THEN MsgAuthRetry ELSE MsgAuthRelogin

\* try { await refreshUser(); toastError(..) } catch { toastError(..) } return
enableUsdc_refreshUser(p) ==
  /\ inv[p].op = "enableUsdc" /\ inv[p].pc = "refreshUser"
  /\ \E refreshed \in BOOLEAN :
       inv' = [inv EXCEPT ![p] =
         Finish(Toast([@ EXCEPT !.refreshes = @ + 1,
                                !.refreshed = IF refreshed THEN "ok" ELSE "failed"],
                      "error", EnableAuthMessage(refreshed)),
                "authExpired", EnableAuthMessage(refreshed))]
  /\ isEnabling' = FALSE
  /\ UNCHANGED <<user, isAuthenticated, publicKey, accountInfo, ledger,
                 showInsufficientBalanceDialog, balanceInfo, step, loadToast, lastLoad>>
  /\ UNCHANGED <<walletVars, evm, balanceVars, deviceVars, cw, session>>

\* how a submission ends for the client: the ledger's verdict delivered as
\* the resolved result or thrown as an HTTP error, or a transport failure
Deliveries == {"resolved", "thrown"}

\* enableUsdc treats the rejection as the benign one
EnableSoftSuccess(delivery, verdict) ==
  delivery = "resolved" /\ isTrustlineAlreadyExists(verdict)

\* the message of the error enableUsdc raises for a rejected submission: the
\* error thrown for the resolved result is caught by the catch around
\* submitTransaction, which translates errors?.response?.data once more
EnableRejectMessage(delivery, verdict) ==
  IF delivery = "resolved" THEN getStellarErrorMessage("undefined")
  ELSE getStellarErrorMessage(verdict)

\* server.submitTransaction(tx) and the handling of its result
enableUsdc_submit(p) ==
  /\ inv[p].op = "enableUsdc" /\ inv[p].pc = "submit"
  /\ LET verdict == LedgerVerdict(ledger, inv[p].tx.seq, "changeTrust", FALSE)
         r == [inv[p] EXCEPT !.submits = @ + 1, !.trace = @ \o <<"submit">>,
                             !.answer = verdict]
     IN
       \/ /\ verdict = "success"
          /\ ledger' = LedgerApply(ledger, "changeTrust")
          /\ inv' = [inv EXCEPT ![p] =
               [Toast(r, "success", MsgEnabled) EXCEPT !.pc = "refreshAccount",
                                                       !.outcome = "success"]]
          /\ UNCHANGED isEnabling
       \/ /\ verdict # "success"
          /\ \E d \in Deliveries :
               IF EnableSoftSuccess(d, verdict)
               THEN /\ inv' = [inv EXCEPT ![p] =
                         [Toast(r, "info", MsgAlreadyExists) EXCEPT
                            !.pc = "refreshAccount", !.outcome = "soft"]]
                    /\ UNCHANGED isEnabling
               ELSE /\ inv' = [inv EXCEPT ![p] =
                         EnableCatch(r, EnableRejectMessage(d, verdict))]
                    /\ isEnabling' = FALSE
          /\ UNCHANGED ledger
       \/ /\ inv' = [inv EXCEPT ![p] =
               EnableCatch([r EXCEPT !.answer = "network"],
                           getStellarErrorMessage("undefined"))]
          /\ isEnabling' = FALSE
          /\ UNCHANGED ledger
  /\ UNCHANGED <<user, isAuthenticated, publicKey, accountInfo,
                 showInsufficientBalanceDialog, balanceInfo, step, loadToast, lastLoad>>
  /\ UNCHANGED <<walletVars, evm, balanceVars, deviceVars, cw, session>>

\* await refreshAccount() after the success and the already-exists notice
enableUsdc_refreshAccount(p) ==
  /\ inv[p].op = "enableUsdc" /\ inv[p].pc = "refreshAccount"
  /\ \E o \in LoadOutcomes(ledger) :
       /\ accountInfo' = AccountAfterLoad(o)
       /\ loadToast' = ToastAfterLoad(o)
       /\ lastLoad' = o
  /\ inv' = [inv EXCEPT ![p] = [@ EXCEPT !.pc = "done", !.refreshes = @ + 1]]
  /\ isEnabling' = FALSE
  /\ UNCHANGED <<user, isAuthenticated, publicKey, ledger,
                 showInsufficientBalanceDialog, balanceInfo, step>>
  /\ UNCHANGED <<walletVars, evm, balanceVars, deviceVars, cw, session>>

\* ------------------------------------------------------------------------
\* useStellarTransfer: transfer (direct mode, the mode useTokenTransfer uses)
\* ------------------------------------------------------------------------

\* an error thrown to the caller of transfer
Throw(r, m) == Finish(r, "thrown", m)

\* transfer up to the call of StellarPayNow
transfer_begin(p) ==
  /\ CanStart(p)
  /\ LET r == InvStart("transfer", accountInfo) IN
       IF ~user \/ ~isAuthenticated \/ ~publicKey
       THEN /\ inv' = Begin(p, Throw(r, MsgLogin))
            /\ UNCHANGED step
       ELSE IF accountInfo.st # "loaded"
       THEN /\ inv' = Begin(p, Throw(r, MsgTxFailed))
            /\ UNCHANGED step
       ELSE /\ step' = "submit-transaction"
            /\ inv' = Begin(p, [r EXCEPT !.pc = "pay"])
  /\ UNCHANGED <<user, isAuthenticated, publicKey, accountInfo, ledger, isEnabling,
                 showInsufficientBalanceDialog, balanceInfo, loadToast, lastLoad>>

transfer_start(p) == transfer_begin(p) /\ UNCHANGED <<walletVars, evm, balanceVars, deviceVars, cw, session>>

\* StellarPayNow({account, publicKey, server, token, order}): the payment
\* transaction built on the account object it is given
StellarPayNow(account, at) == BuildTx(account, at)

\* transactionXdr = await StellarPayNow(stellarPayParams); transaction.hash()
transfer_pay(p) ==
  /\ inv[p].op = "transfer" /\ inv[p].pc = "pay"
  /\ inv' = [inv EXCEPT ![p] =
       [@ EXCEPT !.pc = "sign", !.tx = StellarPayNow(inv[p].account, ledger.seq),
                 !.trace = @ \o <<"sequence", "build", "hash">>]]
  /\ UNCHANGED <<user, isAuthenticated, publicKey, accountInfo, ledger, isEnabling,
                 showInsufficientBalanceDialog, balanceInfo, step, loadToast, lastLoad>>
  /\ UNCHANGED <<walletVars, evm, balanceVars, deviceVars, cw, session>>

\* signRawHash({address, chainType, hash}) and transaction.addSignature
transfer_sign(p) ==
  /\ inv[p].op = "transfer" /\ inv[p].pc = "sign"
  /\ \E o \in SignOutcomes :
       inv' = [inv EXCEPT ![p] =
         IF o = "ok" THEN Signed(@)
         ELSE IF isAuthMessage(SignMessage(o))
         THEN [@ EXCEPT !.pc = "refreshUser", !.raw = SignMessage(o),
                        !.trace = @ \o <<"sign">>]
         ELSE Throw([@ EXCEPT !.raw = SignMessage(o), !.trace = @ \o <<"sign">>],
                    SignMessage(o))]
  /\ UNCHANGED <<user, isAuthenticated, publicKey, accountInfo, ledger, isEnabling,
                 showInsufficientBalanceDialog, balanceInfo, step, loadToast, lastLoad>>
  /\ UNCHANGED <<walletVars, evm, balanceVars, deviceVars, cw, session>>

\* the message transfer throws after the session refresh: the error thrown
\* after a successful refresh is caught by the catch of the same try
TransferAuthMessage(refreshed) == MsgAuthRelogin

\* try { await refreshUser(); throw .. } catch { throw .. }
transfer_refreshUser(p) ==
  /\ inv[p].op = "transfer" /\ inv[p].pc = "refreshUser"
  /\ \E refreshed \in BOOLEAN :
       inv' = [inv EXCEPT ![p] =
         Throw([@ EXCEPT !.refreshes = @ + 1,
                         !.refreshed = IF refreshed THEN "ok" ELSE "failed"],
               TransferAuthMessage(refreshed))]
  /\ UNCHANGED <<user, isAuthenticated, publicKey, accountInfo, ledger, isEnabling,
                 showInsufficientBalanceDialog, balanceInfo, step, loadToast, lastLoad>>
  /\ UNCHANGED <<walletVars, evm, balanceVars, deviceVars, cw, session>>

\* the error transfer throws for a submission the ledger refused
TransferRejectMessage(delivery) ==
  IF delivery = "resolved" THEN MsgTxFailed ELSE RawBadRequest

\* the result is taken for a success without looking at result.successful
TransferSucceeded_any(verdict) == TRUE

\* result.successful && paymentResponse?.payment, for a resolved result
TransferSucceeded(verdict) == verdict = "success"

\* server.submitTransaction(transaction) and the handling of its result
transfer_submit(p) ==
  /\ inv[p].op = "transfer" /\ inv[p].pc = "submit"
  /\ \E deny \in BOOLEAN :
       LET verdict == LedgerVerdict(ledger, inv[p].tx.seq, "payment", deny)
           r == [inv[p] EXCEPT !.submits = @ + 1, !.trace = @ \o <<"submit">>,
                               !.answer = verdict]
       IN
         \/ /\ ledger' = IF verdict = "success" THEN LedgerApply(ledger, "payment")
                          ELSE ledger
            /\ IF TransferSucceeded(verdict)
               THEN /\ step' = "success"
                    /\ inv' = [inv EXCEPT ![p] = Finish(r, "returned", "")]
               ELSE /\ inv' = [inv EXCEPT ![p] = Throw(r, TransferRejectMessage("resolved"))]
                    /\ UNCHANGED step
         \/ /\ verdict # "success"
            /\ inv' = [inv EXCEPT ![p] = Throw(r, TransferRejectMessage("thrown"))]
            /\ UNCHANGED <<ledger, step>>
         \/ /\ inv' = [inv EXCEPT ![p] = Throw([r EXCEPT !.answer = "network"], RawNetwork)]
            /\ UNCHANGED <<ledger, step>>
  /\ UNCHANGED <<user, isAuthenticated, publicKey, accountInfo, isEnabling,
                 showInsufficientBalanceDialog, balanceInfo, loadToast, lastLoad>>
  /\ UNCHANGED <<walletVars, evm, balanceVars, deviceVars, cw, session>>

\* ------------------------------------------------------------------------
\* WalletProvider: wallets, preference, switchWallet
\* ------------------------------------------------------------------------

\* the addresses Privy can hand out, in the order Array.prototype.sort()
\* puts them: "0x.." sorts before "G.."
AddressOrder == <<"0xA1", "0xA2", "GA1", "GA2">>

Addresses == {AddressOrder[i] : i \in DOMAIN AddressOrder}

\* account.chain_type of the embedded wallet with that address
ChainOf(address) == IF address \in {"0xA1", "0xA2"} THEN "ethereum" ELSE "stellar"

Range(s) == {s[i] : i \in DOMAIN s}

\* user.linked_accounts filtered to the embedded ethereum / stellar wallets
wallets(linked) == SelectSeq(linked, LAMBDA a : ChainOf(a) \in {"ethereum", "stellar"})

\* one key for every account: "preferred_primary_chain" without addresses
preferredChainStorageKey_shared(ws) == <<>>

\* the sorted addresses of the wallets, joined: the suffix of the storage key
preferredChainStorageKey(ws) == SelectSeq(AddressOrder, LAMBDA a : a \in Range(ws))

\* the keys the storage can hold a preference under
StorageKeys == {SelectSeq(AddressOrder, LAMBDA a : a \in S) : S \in SUBSET Addresses}

\* the chain a token id designates
ChainOfToken(token) == IF token = "USDC_BASE" THEN "ethereum" ELSE "stellar"

\* the first wallet of the list, whatever the preference
primaryWallet_first(ws, preferred) == IF Len(ws) = 0 THEN "null" ELSE ws[1]

\* wallets.find(w => w.chain === chain) ?? wallets[0] ?? null
primaryWallet(ws, preferred) ==
  IF Len(ws) = 0 THEN "null"
  ELSE LET match == SelectSeq(ws, LAMBDA a : ChainOf(a) = ChainOfToken(preferred))
       IN IF Len(match) > 0 THEN match[1] ELSE ws[1]

\* getItem(key): the stored value, "none" when nothing is stored
getItem(store, key) == store[key]

\* setItem(key, value)
setItem(store, key, value) == [store EXCEPT ![key] = value]

\* whatever is stored is taken for the preference
LoadPreferred_stored(store, key) ==
  IF getItem(store, key) = "none" THEN "USDC_BASE" ELSE getItem(store, key)

\* the effect on preferredChainStorageKey: the stored preference when it is
\* valid, USDC_BASE otherwise
LoadPreferred(store, key) ==
  IF getItem(store, key) \in {"USDC_BASE", "USDC_XLM"} THEN getItem(store, key)
  ELSE "USDC_BASE"

\* the wallet list has a wallet on that chain
HasWalletOn(linked, chain) == \E a \in Range(wallets(linked)) : ChainOf(a) = chain

\* user.linked_accounts.filter(type === "wallet" && chain_type === chain).length > 0
isPreferredExist(linked, chain) == \E a \in Range(linked) : ChainOf(a) = chain

\* hasEmbeddedWalletForChain of handleCreateWallet
hasEmbeddedWalletForChain(linked, chain) == \E a \in Range(linked) : ChainOf(a) = chain

\* the addresses Privy has not handed out yet for that chain
FreshAddresses(chain) ==
  {a \in Addresses : ChainOf(a) = chain
                       /\ a \notin Range(privyLinked) \cup Range(parked.linked)}

SwIdle == [pc |-> "idle", target |-> "none", newChain |-> "none", key |-> <<>>,
           noWallet |-> FALSE, calls |-> <<>>, failed |-> "none",
           startPref |-> "none", startStorage |-> <<>>, toast |-> "none"]

\* an invocation of getBalance that has not started
GbIdle == [pc |-> "idle", wallet |-> "null", native |-> <<>>, outcome |-> "none",
           value |-> <<>>, error |-> "", failed |-> "none", requests |-> 0]

\* catch: toastError("Failed to switch wallet"); finally setIsSwitching(false)
SwitchCatch(s, what) == [s EXCEPT !.pc = "done", !.failed = what, !.toast = "error"]

\* handleSwitchWallet up to its first await
switchWallet_start ==
  /\ sw.pc \in {"idle", "done"}
  /\ LET target == IF preferredPrimaryChain = "USDC_BASE" THEN "stellar" ELSE "ethereum"
         s == [SwIdle EXCEPT
                 !.target = target,
                 !.newChain = IF preferredPrimaryChain = "USDC_BASE" THEN "USDC_XLM"
                              ELSE "USDC_BASE",
                 !.key = preferredChainStorageKey(wallets(userLinked)),
                 !.noWallet = ~HasWalletOn(userLinked, target),
                 !.startPref = preferredPrimaryChain,
                 !.startStorage = storageKV]
     IN IF ~user \/ ~merchant
        THEN /\ sw' = [s EXCEPT !.pc = "done", !.failed = "precondition"]
             /\ UNCHANGED <<isSwitching, isCreating>>
        ELSE /\ isSwitching' = TRUE
             /\ IF ~isPreferredExist(userLinked, target)
                THEN /\ isCreating' = TRUE
                     /\ sw' = [s EXCEPT !.pc = "create"]
                ELSE /\ sw' = [s EXCEPT !.pc = "update"]
                     /\ UNCHANGED isCreating
  /\ UNCHANGED <<privyLinked, userLinked, merchant, storageKV, preferredPrimaryChain>>
  /\ UNCHANGED <<stellarVars, evm, balanceVars, deviceVars, cw, session>>

\* handleCreateWallet gives up: finally setIsCreating(false), the error is
\* rethrown into the catch of handleSwitchWallet
CreateFailed_swallowed(s, what) == [s EXCEPT !.pc = "update", !.failed = what]

CreateFailed(s, what) == SwitchCatch(s, what)

\* handleCreateWallet(chain): createWallet({createAdditional: true}) or
\* createOtherChainWallet({chainType: chain})
handleCreateWallet_create ==
  /\ sw.pc = "create"
  /\ LET s == [sw EXCEPT !.calls = Append(@, sw.target)] IN
       IF hasEmbeddedWalletForChain(userLinked, sw.target)
       THEN /\ sw' = [sw EXCEPT !.pc = "update"]
            /\ isCreating' = FALSE
            /\ UNCHANGED <<privyLinked, isSwitching>>
       ELSE \/ \E a \in FreshAddresses(sw.target) :
                 /\ privyLinked' = Append(privyLinked, a)
                 /\ sw' = [s EXCEPT !.pc = "refreshUser"]
                 /\ UNCHANGED <<isCreating, isSwitching>>
            \/ /\ sw' = CreateFailed(s, "create")
               /\ isCreating' = FALSE
               /\ isSwitching' = (sw'.pc # "done")
               /\ UNCHANGED privyLinked
  /\ UNCHANGED <<userLinked, merchant, storageKV, preferredPrimaryChain>>
  /\ UNCHANGED <<stellarVars, evm, balanceVars, deviceVars, cw, session>>

\* await refreshUser() of handleCreateWallet: the new user object changes the
\* wallets, hence the storage key, and the load effect runs on the new key
handleCreateWallet_refreshUser ==
  /\ sw.pc = "refreshUser"
  /\ \/ /\ userLinked' = privyLinked
        /\ preferredPrimaryChain' =
             IF preferredChainStorageKey(wallets(privyLinked))
                  # preferredChainStorageKey(wallets(userLinked))
             THEN LoadPreferred(storageKV, preferredChainStorageKey(wallets(privyLinked)))
             ELSE preferredPrimaryChain
        /\ sw' = [sw EXCEPT !.pc = "update"]
        /\ UNCHANGED isSwitching
     \/ /\ sw' = CreateFailed(sw, "refreshUser")
        /\ isSwitching' = (sw'.pc # "done")
        /\ UNCHANGED <<userLinked, preferredPrimaryChain>>
  /\ isCreating' = FALSE
  /\ UNCHANGED <<privyLinked, merchant, storageKV>>
  /\ UNCHANGED <<stellarVars, evm, balanceVars, deviceVars, cw, session>>

\* await updateProfile({.., default_token_id: newPrimaryChain}), then
\* setPreferredPrimaryChain(newPrimaryChain) of the render the call started in:
\* the state is set and the value stored under the key of that render
switchWallet_updateProfile ==
  /\ sw.pc = "update"
  /\ \/ /\ preferredPrimaryChain' = sw.newChain
        /\ storageKV' = setItem(storageKV, sw.key, sw.newChain)
        /\ sw' = [sw EXCEPT !.pc = "refetch"]
        /\ UNCHANGED isSwitching
     \/ /\ sw' = SwitchCatch(sw, "updateProfile")
        /\ isSwitching' = FALSE
        /\ UNCHANGED <<preferredPrimaryChain, storageKV>>
  /\ UNCHANGED <<privyLinked, userLinked, merchant, isCreating>>
  /\ UNCHANGED <<stellarVars, evm, balanceVars, deviceVars, cw, session>>

\* await refetchMerchant(); toastSuccess("Wallet switched successfully!")
switchWallet_refetchMerchant ==
  /\ sw.pc = "refetch"
  /\ \/ sw' = [sw EXCEPT !.pc = "done", !.toast = "success"]
     \/ sw' = SwitchCatch(sw, "refetchMerchant")
  /\ isSwitching' = FALSE
  /\ UNCHANGED <<privyLinked, userLinked, merchant, storageKV, preferredPrimaryChain,
                 isCreating>>
  /\ UNCHANGED <<stellarVars, evm, balanceVars, deviceVars, cw, session>>

switchWallet ==
  \/ switchWallet_start
  \/ handleCreateWallet_create
  \/ handleCreateWallet_refreshUser
  \/ switchWallet_updateProfile
  \/ switchWallet_refetchMerchant

\* the app is started again: the provider mounts with the user Privy restores
\* and the load effect reads the preference stored under the user's key
restart ==
  /\ userLinked' = privyLinked
  /\ preferredPrimaryChain' =
       LoadPreferred(storageKV, preferredChainStorageKey(wallets(privyLinked)))
  /\ isCreating' = FALSE
  /\ isSwitching' = FALSE
  /\ sw' = SwIdle
  /\ balances' = <<>>
  /\ isBalanceLoading' = FALSE
  /\ gb' = [p \in Procs |-> GbIdle]
  /\ UNCHANGED <<privyLinked, merchant, storageKV>>
  /\ UNCHANGED <<stellarVars, evm, deviceVars, cw, session>>

\* ------------------------------------------------------------------------
\* StellarProvider: the snapshot and the address it was read for
\* ------------------------------------------------------------------------

\* the addresses of the Stellar wallets of the accounts of this device
StellarAddresses == {a \in Addresses : ChainOf(a) = "stellar"}

\* useEffect [publicKey, accountInfo]: if (publicKey && !accountInfo)
\* refreshAccount(), up to the first await of getAccountInfo(publicKey)
LoadEffect(s) ==
  IF s.publicKey # "undefined" /\ s.accountInfo.st # "loaded"
  THEN [s EXCEPT !.loading = @ \cup {s.publicKey}]
  ELSE s

\* the effect of the wallet provider: the primary wallet is the Stellar
\* wallet with the address a, setPublicKey(primaryWallet.address); the
\* snapshot is left as it is
setPublicKey_address(a) ==
  /\ a # session.publicKey
  /\ session' = LoadEffect([session EXCEPT !.publicKey = a])
  /\ UNCHANGED <<stellarVars, walletVars, evm, balanceVars, deviceVars, cw>>

\* refreshAccount() called by a consumer of the provider
refreshAccount_publicKey ==
  /\ session.publicKey # "undefined"
  /\ session.publicKey \notin session.loading
  /\ session' = [session EXCEPT !.loading = @ \cup {session.publicKey}]
  /\ UNCHANGED <<stellarVars, walletVars, evm, balanceVars, deviceVars, cw>>

\* the account with the address a receives its first XLM
AccountFunded(a) ==
  /\ a \notin session.funded
  /\ session' = [session EXCEPT !.funded = @ \cup {a}]
  /\ UNCHANGED <<stellarVars, walletVars, evm, balanceVars, deviceVars, cw>>

\* getAccountInfo(a) settles: setAccountInfo(data), setAccountInfo(null) for
\* the 404, nothing but a toast for another error; the effect runs again when
\* the snapshot changed
getAccountInfo(a) ==
  /\ a \in session.loading
  /\ \E o \in (IF a \in session.funded THEN {"ok"} ELSE {"notFound"}) \cup {"network"} :
       LET info == IF o = "ok" THEN [st |-> "loaded", account_id |-> a]
                   ELSE IF isAccountNotFound(o)
                   THEN [st |-> "null", account_id |-> "none"]
                   ELSE session.accountInfo
           s == [session EXCEPT !.loading = @ \ {a}, !.accountInfo = info,
                                !.lastLoad = o]
       IN session' = IF info.st # session.accountInfo.st THEN LoadEffect(s) ELSE s
  /\ UNCHANGED <<stellarVars, walletVars, evm, balanceVars, deviceVars, cw>>

\* ------------------------------------------------------------------------
\* WalletProvider: the preference of the accounts of one device
\* ------------------------------------------------------------------------

\* the account that is signed out: its embedded wallets at Privy and what
\* the storage held under its key when it signed out
NoParked == [linked |-> <<>>, left |-> "none"]

\* no mount, load or set of the preference yet
PfIdle == [op |-> "none", tick |-> FALSE, v |-> "none", key |-> <<>>,
           again |-> FALSE, expect |-> "none", logins |-> 0]

\* an effect that has not run, and the call of handleCreateWallet it makes:
\* deps are the dependencies of its last run, seen the values of the render
\* it was scheduled in, closure the user of the handleCreateWallet it calls
CwIdle == [pc |-> "idle", ran |-> FALSE, deps |-> <<>>,
           seen |-> [linked |-> <<>>, isCreating |-> FALSE],
           closure |-> [present |-> FALSE, linked |-> <<>>],
           chain |-> "none", requests |-> 0]

Creators == {"createDefaultWallet", "WalletHandler"}

\* the Stellar provider before any address was set
SessionIdle == [publicKey |-> "undefined",
                accountInfo |-> [st |-> "undefined", account_id |-> "none"],
                loading |-> {}, funded |-> {}, lastLoad |-> "none"]

DeviceInit ==
  /\ parked = NoParked /\ pf = PfIdle /\ cw = [c \in Creators |-> CwIdle]
  /\ session = SessionIdle

\* await setItem(preferredChainStorageKey, token)
PersistPreferred(store, key, token) == setItem(store, key, token)

\* setPreferredPrimaryChain(token) of the current render
setPreferredPrimaryChain(token) ==
  /\ pf.op # "mount"
  /\ sw.pc \in {"idle", "done"}
  /\ LET key == preferredChainStorageKey(wallets(userLinked)) IN
       /\ preferredPrimaryChain' = token
       /\ storageKV' = PersistPreferred(storageKV, key, token)
       /\ pf' = [pf EXCEPT !.op = "set", !.tick = ~@, !.v = token, !.key = key,
                           !.again = (preferredPrimaryChain = token
                                      /\ getItem(storageKV, key) = token)]
  /\ UNCHANGED <<privyLinked, userLinked, merchant, isCreating, isSwitching, sw, parked>>
  /\ UNCHANGED <<stellarVars, evm, balanceVars, cw, session>>

\* the account signs out and the other account of the device signs in: the
\* provider state starts from its useState values with the new user
switchAccount ==
  /\ sw.pc \in {"idle", "done"}
  /\ pf.op # "mount"
  /\ pf.logins < MaxLogins
  /\ privyLinked' = parked.linked
  /\ userLinked' = parked.linked
  /\ parked' = [linked |-> privyLinked,
                left |-> getItem(storageKV,
                                 preferredChainStorageKey(wallets(privyLinked)))]
  /\ preferredPrimaryChain' = "undefined"
  /\ isCreating' = FALSE
  /\ isSwitching' = FALSE
  /\ sw' = SwIdle
  /\ balances' = <<>>
  /\ isBalanceLoading' = FALSE
  /\ gb' = [p \in Procs |-> GbIdle]
  /\ pf' = [PfIdle EXCEPT !.op = "mount", !.tick = ~pf.tick, !.expect = parked.left,
                        !.logins = pf.logins + 1]
  /\ UNCHANGED <<merchant, storageKV>>
  /\ UNCHANGED <<stellarVars, evm, cw, session>>

\* the load effect of the first render
loadPreferredChain ==
  /\ pf.op = "mount"
  /\ preferredPrimaryChain' =
       LoadPreferred(storageKV, preferredChainStorageKey(wallets(userLinked)))
  /\ pf' = [pf EXCEPT !.op = "load", !.tick = ~@,
                      !.key = preferredChainStorageKey(wallets(userLinked))]
  /\ UNCHANGED <<privyLinked, userLinked, merchant, storageKV, isCreating,
                 isSwitching, sw, parked>>
  /\ UNCHANGED <<stellarVars, evm, balanceVars, cw, session>>

\* ------------------------------------------------------------------------
\* WalletProvider and WalletHandler: the effects that create the first wallet
\* ------------------------------------------------------------------------

\* hasWallet: wallets.length > 0 && !!wallets[0]?.address
hasWallet(linked) == Len(wallets(linked)) > 0

\* hasAnyEmbeddedWallet of the auto-create effect
hasAnyEmbeddedWallet(linked) == Range(linked) # {}

\* the dependencies of the effects: [user, isCreating] and [user, hasWallet]
EffectDeps(c) ==
  IF c = "createDefaultWallet" THEN <<userLinked, isCreating>>
  ELSE <<userLinked, hasWallet(userLinked)>>

\* the effect runs after the next commit: it never ran, or its dependencies
\* changed, and its earlier call has returned
EffectDue(c) ==
  /\ cw[c].pc \in {"idle", "done"}
  /\ ~cw[c].ran \/ cw[c].deps # EffectDeps(c)

\* a commit: every effect that is due is scheduled with the values of this
\* render; no state update is seen by the effects of the same commit
commitEffects ==
  /\ \A c \in Creators : cw[c].pc # "scheduled"
  /\ \E c \in Creators : EffectDue(c)
  /\ cw' = [c \in Creators |->
              IF EffectDue(c)
              THEN [cw[c] EXCEPT !.pc = "scheduled", !.ran = TRUE,
                                 !.deps = EffectDeps(c),
                                 !.seen = [linked |-> userLinked,
                                           isCreating |-> isCreating]]
              ELSE cw[c]]
  /\ UNCHANGED <<stellarVars, walletVars, evm, balanceVars, deviceVars, session>>

\* handleCreateWallet(chain) of the closure r.closure up to its first await:
\* the new value of isCreating and the record of the call
CreateCall(r, chain) ==
  IF ~r.closure.present
  THEN [creating |-> isCreating, rec |-> [r EXCEPT !.pc = "done"]]
  ELSE IF hasEmbeddedWalletForChain(r.closure.linked, chain)
  THEN [creating |-> FALSE, rec |-> [r EXCEPT !.pc = "done"]]
  ELSE [creating |-> TRUE, rec |-> [r EXCEPT !.pc = "create", !.chain = chain]]

\* the auto-create effect: createDefaultWallet()
createDefaultWallet_effect ==
  /\ cw["createDefaultWallet"].pc = "scheduled"
  /\ LET r == [cw["createDefaultWallet"] EXCEPT
                 !.closure = [present |-> TRUE,
                              linked |-> cw["createDefaultWallet"].seen.linked]]
     IN IF r.seen.isCreating \/ hasAnyEmbeddedWallet(r.seen.linked)
        THEN /\ cw' = [cw EXCEPT !["createDefaultWallet"] = [r EXCEPT !.pc = "done"]]
             /\ UNCHANGED isCreating
        ELSE /\ cw' = [cw EXCEPT !["createDefaultWallet"] = CreateCall(r, "ethereum").rec]
             /\ isCreating' = CreateCall(r, "ethereum").creating
  /\ UNCHANGED <<privyLinked, userLinked, merchant, storageKV, preferredPrimaryChain,
                 isSwitching, sw>>
  /\ UNCHANGED <<stellarVars, evm, balanceVars, deviceVars, session>>

\* the effect of WalletHandler: createWallet("USDC_BASE"), which is
\* createWalletByToken with the handleCreateWallet of the first render
WalletHandler_effect ==
  /\ cw["WalletHandler"].pc = "scheduled"
  /\ LET r == cw["WalletHandler"]
     IN IF hasWallet(r.seen.linked)
        THEN /\ cw' = [cw EXCEPT !["WalletHandler"] = [r EXCEPT !.pc = "done"]]
             /\ UNCHANGED isCreating
        ELSE /\ cw' = [cw EXCEPT !["WalletHandler"] =
                         CreateCall(r, ChainOfToken("USDC_BASE")).rec]
             /\ isCreating' = CreateCall(r, ChainOfToken("USDC_BASE")).creating
  /\ UNCHANGED <<privyLinked, userLinked, merchant, storageKV, preferredPrimaryChain,
                 isSwitching, sw>>
  /\ UNCHANGED <<stellarVars, evm, balanceVars, deviceVars, session>>

\* await createWallet({createAdditional: true}) / createOtherChainWallet(..)
handleCreateWallet_request(c) ==
  /\ cw[c].pc = "create"
  /\ \/ /\ \E a \in FreshAddresses(cw[c].chain) : privyLinked' = Append(privyLinked, a)
        /\ cw' = [cw EXCEPT ![c] = [@ EXCEPT !.pc = "refreshUser", !.requests = 1]]
        /\ UNCHANGED isCreating
     \/ /\ cw' = [cw EXCEPT ![c] = [@ EXCEPT !.pc = "done", !.requests = 1]]
        /\ isCreating' = FALSE
        /\ UNCHANGED privyLinked
  /\ UNCHANGED <<userLinked, merchant, storageKV, preferredPrimaryChain, isSwitching, sw>>
  /\ UNCHANGED <<stellarVars, evm, balanceVars, deviceVars, session>>

\* await refreshUser(), finally setIsCreating(false); the load effect runs
\* when the new user changes the storage key
handleCreateWallet_refresh(c) ==
  /\ cw[c].pc = "refreshUser"
  /\ \/ /\ userLinked' = privyLinked
        /\ preferredPrimaryChain' =
             IF preferredChainStorageKey(wallets(privyLinked))
                  # preferredChainStorageKey(wallets(userLinked))
             THEN LoadPreferred(storageKV, preferredChainStorageKey(wallets(privyLinked)))
             ELSE preferredPrimaryChain
     \/ UNCHANGED <<userLinked, preferredPrimaryChain>>
  /\ cw' = [cw EXCEPT ![c] = [@ EXCEPT !.pc = "done"]]
  /\ isCreating' = FALSE
  /\ UNCHANGED <<privyLinked, merchant, storageKV, isSwitching, sw>>
  /\ UNCHANGED <<stellarVars, evm, balanceVars, deviceVars, session>>

\* ------------------------------------------------------------------------
\* useTokenTransfer: transfer, over the wallet-transfer endpoint or Stellar
\* ------------------------------------------------------------------------

\* axiosRetry(client, { retries: 1 })
AxiosRetries == 1

\* the codes of a structured denial of the wallet-transfer endpoint
DenialCodes == {"PIN_REQUIRED", "PIN_BLOCKED", "INACTIVE", "INVALID_PIN"}

MsgWalletUnavailable == "Wallet or token not available"
MsgTransferFailed == "Transfer failed"
MsgStellarFailed == "Failed to transfer with Stellar"
MsgDenied == "Transfer denied"
MsgAxiosNetwork == "Network Error"
MsgAxiosTimeout == "timeout of 20000ms exceeded"
MsgSignerRejected == "User rejected the request"

\* the status object of the hook
StatusIdle == [isLoading |-> FALSE, error |-> "", transactionHash |-> "null",
               success |-> FALSE]

StatusLoading == [StatusIdle EXCEPT !.isLoading = TRUE]

StatusError(m) == [StatusIdle EXCEPT !.error = m]

StatusSuccess(h) == [StatusIdle EXCEPT !.transactionHash = h, !.success = TRUE]

\* the values of response.transaction.hash, and the hash of a Stellar result
Hashes == {"0xdeadbeef", "0xfeedface"}

StellarHash == "stellar-hash"

\* the value transfer() resolves to; code is the code field its error carries
NoResult == [kind |-> "none", success |-> FALSE, message |-> "", code |-> "none",
             transactionHash |-> "null"]

\* the success result without the hash of the response
ResultSuccess_nohash(h) == [NoResult EXCEPT !.kind = "result", !.success = TRUE]

ResultSuccess(h) == [NoResult EXCEPT !.kind = "result", !.success = TRUE,
                                     !.transactionHash = h]

ResultError(m, code) == [NoResult EXCEPT !.kind = "result", !.message = m, !.code = code]

ResultUndefined == [NoResult EXCEPT !.kind = "undefined"]

EvmIdle == [pc |-> "idle", branch |-> "none", status |-> StatusIdle,
            result |-> NoResult, posts |-> 0, retryCount |-> 0,
            denied |-> "none", via |-> "none", hash |-> "null",
            privyWallet |-> FALSE, merchantToken |-> FALSE, signs |-> 0,
            amount |-> "", preferred |-> "none"]

\* the amount strings transfer() is called with: a valid one, zero, a
\* negative one and one that is no number
Amounts == {"10.5", "0", "-1", "abc"}

\* parseFloat(amount) in tenths; NaN for what is no number
AmountIsNaN(amount) == amount \notin {"10.5", "0", "-1"}

AmountTenths(amount) ==
  CASE amount = "10.5" -> 105
    [] amount = "-1" -> 0 - 10
    [] OTHER -> 0

\* the amount parses to a positive decimal
isPositiveAmount(amount) == ~AmountIsNaN(amount) /\ AmountTenths(amount) > 0

\* the answers of one POST to functions/v1/wallets/{walletId}
PostAnswers ==
  {[kind |-> "transferred", code |-> "none", hash |-> h] : h \in Hashes}
  \cup {[kind |-> k, code |-> "none", hash |-> "null"] : k \in {"network", "timeout"}}
  \cup {[kind |-> k, code |-> c, hash |-> "null"] :
          k \in {"body-denied", "http-denied"}, c \in DenialCodes}

\* the default retryCondition of axios-retry: an error without a response
\* whose code is not ECONNABORTED, whatever the method
isNetworkError(answer) == answer.kind = "network"

\* the response interceptor of the client: AppError(errorMessage, statusCode,
\* errorData) with errorData = error.response?.data
AppError(answer) ==
  IF answer.kind = "http-denied" THEN [message |-> MsgDenied, code |-> answer.code]
  ELSE IF answer.kind = "timeout" THEN [message |-> MsgAxiosTimeout, code |-> "none"]
  ELSE [message |-> MsgAxiosNetwork, code |-> "none"]

\* new Error(response.message || "Transfer failed") for a body that is not a
\* success with a transaction
BodyDenial(answer) == ResultError(MsgTransferFailed, "none")

\* catch (err): { success: false, error: err } for an Error instance
CaughtError(err) == ResultError(err.message, err.code)

\* isConnected of the Stellar provider
isConnected == publicKey

\* the branch is chosen by the wallet alone
TransferBranch_wallet(preferred, pw, connected) ==
  IF pw # "null" THEN "evm"
  ELSE IF preferred = "USDC_XLM" /\ connected THEN "stellar"
  ELSE "none"

\* the branch of transfer(): if (preferredPrimaryChain === "USDC_BASE" &&
\* primaryWallet) .. else if (preferredPrimaryChain === "USDC_XLM" &&
\* isConnected) .., and no else
TransferBranch(preferred, pw, connected) ==
  IF preferred = "USDC_BASE" /\ pw # "null" THEN "evm"
  ELSE IF preferred = "USDC_XLM" /\ connected THEN "stellar"
  ELSE "none"

\* transfer(options) up to its first await
tokenTransfer_start ==
  /\ evm.pc \in {"idle", "done"}
  /\ \E privyWallet \in BOOLEAN, merchantToken \in BOOLEAN, amount \in Amounts :
       LET e == [EvmIdle EXCEPT !.status = StatusLoading,
                                !.privyWallet = privyWallet,
                                !.merchantToken = merchantToken,
                                !.amount = amount,
                                !.preferred = preferredPrimaryChain]
           branch == TransferBranch(preferredPrimaryChain,
                       primaryWallet(wallets(userLinked), preferredPrimaryChain),
                       isConnected)
       IN
         IF branch = "evm"
         THEN /\ IF ~privyWallet \/ ~merchantToken
                 THEN evm' = [e EXCEPT !.pc = "done", !.branch = "evm",
                                       !.status = StatusError(MsgWalletUnavailable),
                                       !.result = ResultError(MsgWalletUnavailable, "none")]
                 ELSE evm' = [e EXCEPT !.pc = "sign", !.branch = "evm"]
              /\ UNCHANGED stellarVars
         ELSE IF branch = "stellar"
         THEN /\ transfer_begin(1)
              /\ evm' = [e EXCEPT !.pc = "stellar", !.branch = "stellar"]
         ELSE /\ evm' = [e EXCEPT !.pc = "done", !.result = ResultUndefined]
              /\ UNCHANGED stellarVars
  /\ UNCHANGED <<walletVars, balanceVars, deviceVars, cw, session>>

\* getProvider(), eth_requestAccounts and personal_sign of the Privy wallet
tokenTransfer_sign ==
  /\ evm.pc = "sign"
  /\ \/ evm' = [evm EXCEPT !.pc = "post", !.signs = @ + 1]
     \/ evm' = [evm EXCEPT !.pc = "done", !.signs = @ + 1,
                           !.status = StatusError(MsgSignerRejected),
                           !.result = ResultError(MsgSignerRejected, "none")]
  /\ UNCHANGED <<stellarVars, walletVars, balanceVars, deviceVars, cw, session>>

\* what transfer() makes of the settled walletTransfer call
TransferResult(answer) ==
  IF answer.kind = "transferred" THEN ResultSuccess(answer.hash)
  ELSE IF answer.kind = "body-denied" THEN BodyDenial(answer)
  ELSE CaughtError(AppError(answer))

\* one request of walletTransfer: client({url, method: "POST", ..}) through
\* the interceptors of the client, axios-retry first
walletTransfer_post ==
  /\ evm.pc = "post"
  /\ \E answer \in PostAnswers :
       LET e == [evm EXCEPT !.posts = @ + 1] IN
         IF isNetworkError(answer) /\ evm.retryCount < AxiosRetries
         THEN evm' = [e EXCEPT !.retryCount = @ + 1]
         ELSE evm' = [e EXCEPT
                !.pc = "done",
                !.denied = answer.code,
                !.via = answer.kind,
                !.result = TransferResult(answer),
                !.hash = answer.hash,
                !.status = IF TransferResult(answer).success
                           THEN StatusSuccess(answer.hash)
                           ELSE StatusError(TransferResult(answer).message)]
  /\ UNCHANGED <<stellarVars, walletVars, balanceVars, deviceVars, cw, session>>

\* the settled stellarTransfer call: a result with its hash, or the catch
tokenTransfer_stellarSettled ==
  /\ evm.pc = "stellar" /\ inv[1].pc = "done"
  /\ evm' = IF inv[1].outcome = "returned"
            THEN [evm EXCEPT !.pc = "done", !.result = ResultSuccess(StellarHash)]
            ELSE [evm EXCEPT !.pc = "done",
                             !.status = StatusError(inv[1].msg),
                             !.result = ResultError(inv[1].msg, "none")]
  /\ UNCHANGED <<stellarVars, walletVars, balanceVars, deviceVars, cw, session>>

tokenTransfer ==
  \/ tokenTransfer_start
  \/ tokenTransfer_sign
  \/ walletTransfer_post
  \/ tokenTransfer_stellarSettled

\* ------------------------------------------------------------------------
\* WalletProvider: getBalance
\* ------------------------------------------------------------------------

\* the balances the Privy balance endpoint answers for asset eth and usdc
NativeBalances == {<<[asset |-> "eth", balance |-> "0.01"]>>}

UsdcBalances == {<<[asset |-> "usdc", balance |-> "12.50"]>>,
                 <<[asset |-> "usdc", balance |-> "0"]>>}

\* the errors axios.get rejects with
BalanceErrors == {"Network Error", "Request failed with status code 401"}

\* the failure is logged and an empty list is returned
GetBalanceCatch_swallowed(r, request, e) ==
  [r EXCEPT !.pc = "done", !.outcome = "returned", !.failed = request]

\* catch (error) { console.error(..); throw error }
GetBalanceCatch(r, request, e) ==
  [r EXCEPT !.pc = "done", !.outcome = "rejected", !.error = e, !.failed = request]

\* getBalance() up to its first await
getBalance_start(p) ==
  /\ gb[p].pc \in {"idle", "done"}
  /\ LET pw == primaryWallet(wallets(userLinked), preferredPrimaryChain)
         r == [GbIdle EXCEPT !.wallet = pw]
     IN IF pw # "null" /\ preferredPrimaryChain = "USDC_BASE"
        THEN /\ gb' = [gb EXCEPT ![p] = [r EXCEPT !.pc = "native"]]
             /\ isBalanceLoading' = TRUE
        ELSE IF pw # "null" /\ preferredPrimaryChain = "USDC_XLM" /\ isConnected
        THEN /\ gb' = [gb EXCEPT ![p] = [r EXCEPT !.pc = "stellar"]]
             /\ isBalanceLoading' = TRUE
        ELSE /\ gb' = [gb EXCEPT ![p] = [r EXCEPT !.pc = "done", !.outcome = "undefined"]]
             /\ isBalanceLoading' = FALSE
  /\ UNCHANGED balances
  /\ UNCHANGED <<stellarVars, walletVars, evm, deviceVars, cw, session>>

\* axios.get(.../wallets/{id}/balance, {asset: "eth", chain: "base"})
getBalance_native(p) ==
  /\ gb[p].pc = "native"
  /\ \/ /\ \E b \in NativeBalances :
             gb' = [gb EXCEPT ![p] = [@ EXCEPT !.pc = "usdc", !.native = b,
                                               !.requests = @ + 1]]
        /\ UNCHANGED isBalanceLoading
     \/ /\ \E e \in BalanceErrors :
             gb' = [gb EXCEPT ![p] =
                      GetBalanceCatch([@ EXCEPT !.requests = @ + 1], "native", e)]
        /\ isBalanceLoading' = FALSE
  /\ UNCHANGED balances
  /\ UNCHANGED <<stellarVars, walletVars, evm, deviceVars, cw, session>>

\* axios.get(.., {asset: "usdc", chain: "base"}); setBalances(allBalances)
getBalance_usdc(p) ==
  /\ gb[p].pc = "usdc"
  /\ \/ \E b \in UsdcBalances :
          /\ balances' = gb[p].native \o b
          /\ gb' = [gb EXCEPT ![p] = [@ EXCEPT !.pc = "done", !.outcome = "returned",
                                               !.value = gb[p].native \o b,
                                               !.requests = @ + 1]]
     \/ \E e \in BalanceErrors :
          /\ gb' = [gb EXCEPT ![p] =
                      GetBalanceCatch([@ EXCEPT !.requests = @ + 1], "usdc", e)]
          /\ UNCHANGED balances
  /\ isBalanceLoading' = FALSE
  /\ UNCHANGED <<stellarVars, walletVars, evm, deviceVars, cw, session>>

\* the list refreshAccount() resolves to: the balances just read, [] otherwise
RefreshedBalances(o) ==
  IF o = "ok" THEN formatStellarBalancesAsWalletInfo(AccountResponse(ledger)) ELSE <<>>

\* latestBalances = await refreshAccount(); setBalances(latestBalances)
getBalance_stellar(p) ==
  /\ gb[p].pc = "stellar"
  /\ \E o \in LoadOutcomes(ledger) :
       /\ accountInfo' = AccountAfterLoad(o)
       /\ loadToast' = ToastAfterLoad(o)
       /\ lastLoad' = o
       /\ balances' = RefreshedBalances(o)
       /\ gb' = [gb EXCEPT ![p] = [@ EXCEPT !.pc = "done", !.outcome = "returned",
                                            !.value = RefreshedBalances(o),
                                            !.failed = IF o = "ok" THEN "none" ELSE o]]
  /\ isBalanceLoading' = FALSE
  /\ UNCHANGED <<user, isAuthenticated, publicKey, ledger, isEnabling,
                 showInsufficientBalanceDialog, balanceInfo, step, inv>>
  /\ UNCHANGED <<walletVars, evm, deviceVars, cw, session>>

getBalance(p) ==
  \/ getBalance_start(p)
  \/ getBalance_native(p)
  \/ getBalance_usdc(p)
  \/ getBalance_stellar(p)

\* ------------------------------------------------------------------------
\* Specification of the Stellar flows
\* ------------------------------------------------------------------------

\* the session states: no user, a user without access token, authenticated
Sessions == {<<FALSE, FALSE>>, <<TRUE, FALSE>>, <<TRUE, TRUE>>}

\* useState([]) of balances, useState(false) of isBalanceLoading
BalanceInit ==
  /\ balances = <<>>
  /\ isBalanceLoading = FALSE
  /\ gb = [p \in Procs |-> GbIdle]

\* the provider mounted for a user with these linked accounts, nothing stored
WalletInit(linkedChoices, merchantChoices) ==
  /\ privyLinked \in linkedChoices
  /\ userLinked = privyLinked
  /\ merchant \in merchantChoices
  /\ storageKV = [k \in StorageKeys |-> "none"]
  /\ preferredPrimaryChain =
       LoadPreferred(storageKV, preferredChainStorageKey(wallets(userLinked)))
  /\ isCreating = FALSE
  /\ isSwitching = FALSE
  /\ sw = SwIdle

Init ==
  /\ \E s \in Sessions : user = s[1] /\ isAuthenticated = s[2]
  /\ publicKey = FALSE
  /\ accountInfo = AccountUndefined
  /\ ledger \in {LedgerUnfunded} \cup
       {[funded |-> TRUE, xlm |-> x, trust |-> t, seq |-> 0] :
          x \in BalanceStrings \ {"0.0000000"}, t \in BOOLEAN}
  /\ isEnabling = FALSE
  /\ showInsufficientBalanceDialog = FALSE
  /\ balanceInfo = [current |-> 0, required |-> MinXlmTenths]
  /\ step = "create-payment"
  /\ loadToast = FALSE
  /\ lastLoad = "none"
  /\ inv = [p \in Procs |-> InvIdle]
  /\ WalletInit({<<"0xA1", "GA1">>}, {TRUE})
  /\ evm = EvmIdle
  /\ BalanceInit
  /\ DeviceInit

enableUsdc(p) ==
  \/ enableUsdc_start(p)
  \/ enableUsdc_loadAccount(p)
  \/ enableUsdc_sign(p)
  \/ enableUsdc_refreshUser(p)
  \/ enableUsdc_submit(p)
  \/ enableUsdc_refreshAccount(p)

transfer(p) ==
  \/ transfer_start(p)
  \/ transfer_pay(p)
  \/ transfer_sign(p)
  \/ transfer_refreshUser(p)
  \/ transfer_submit(p)

\* one invocation at a time: the caller awaits each call
Next ==
  \/ setPublicKey
  \/ refreshAccount
  \/ LedgerDeposit
  \/ \E p \in Solo : enableUsdc(p)
  \/ \E p \in Solo : transfer(p)

Spec == Init /\ [][Next]_vars

\* two transfers triggered concurrently by the UI on a loaded account
InitRace ==
  /\ user = TRUE /\ isAuthenticated = TRUE
  /\ publicKey = TRUE
  /\ ledger \in {[funded |-> TRUE, xlm |-> "2.0000000", trust |-> t, seq |-> 0] :
                   t \in BOOLEAN}
  /\ accountInfo = AccountResponse(ledger)
  /\ isEnabling = FALSE
  /\ showInsufficientBalanceDialog = FALSE
  /\ balanceInfo = [current |-> 0, required |-> MinXlmTenths]
  /\ step = "create-payment"
  /\ loadToast = FALSE
  /\ lastLoad = "none"
  /\ inv = [p \in Procs |-> InvIdle]
  /\ WalletInit({<<"0xA1", "GA1">>}, {TRUE})
  /\ evm = EvmIdle
  /\ BalanceInit
  /\ DeviceInit

NextRace ==
  \/ refreshAccount
  \/ \E p \in Procs : transfer(p)

SpecRace == InitRace /\ [][NextRace]_vars

\* two enableUsdc() calls triggered concurrently by the UI on a loaded account
NextEnableRace == \E p \in Procs : enableUsdc(p)

SpecEnableRace == InitRace /\ [][NextEnableRace]_vars

\* the wallet provider of a signed-in user: a fresh user, a user with the
\* default ethereum wallet, a user with both wallets
InitWallet ==
  /\ user = TRUE /\ isAuthenticated = TRUE
  /\ publicKey = FALSE
  /\ accountInfo = AccountUndefined
  /\ ledger = LedgerUnfunded
  /\ isEnabling = FALSE
  /\ showInsufficientBalanceDialog = FALSE
  /\ balanceInfo = [current |-> 0, required |-> MinXlmTenths]
  /\ step = "create-payment"
  /\ loadToast = FALSE
  /\ lastLoad = "none"
  /\ inv = [p \in Procs |-> InvIdle]
  /\ WalletInit({<<>>, <<"0xA1">>, <<"0xA1", "GA1">>}, BOOLEAN)
  /\ evm = EvmIdle
  /\ BalanceInit
  /\ DeviceInit

NextWallet ==
  \/ switchWallet
  \/ restart

SpecWallet == InitWallet /\ [][NextWallet]_vars

\* a signed-in user transferring over the chain the preference designates
InitEvm ==
  /\ user = TRUE /\ isAuthenticated = TRUE
  /\ publicKey \in BOOLEAN
  /\ ledger = [funded |-> TRUE, xlm |-> "2.0000000", trust |-> TRUE, seq |-> 0]
  /\ accountInfo = IF publicKey THEN AccountResponse(ledger) ELSE AccountUndefined
  /\ isEnabling = FALSE
  /\ showInsufficientBalanceDialog = FALSE
  /\ balanceInfo = [current |-> 0, required |-> MinXlmTenths]
  /\ step = "create-payment"
  /\ loadToast = FALSE
  /\ lastLoad = "none"
  /\ inv = [p \in Procs |-> InvIdle]
  /\ privyLinked \in {<<>>, <<"0xA1">>, <<"0xA1", "GA1">>}
  /\ userLinked = privyLinked
  /\ merchant = TRUE
  /\ storageKV \in {[k \in StorageKeys |-> IF k = preferredChainStorageKey(wallets(userLinked))
                                           THEN v ELSE "none"] :
                      v \in {"none", "USDC_XLM"}}
  /\ preferredPrimaryChain =
       LoadPreferred(storageKV, preferredChainStorageKey(wallets(userLinked)))
  /\ isCreating = FALSE
  /\ isSwitching = FALSE
  /\ sw = SwIdle
  /\ evm = EvmIdle
  /\ BalanceInit
  /\ DeviceInit

NextEvm ==
  \/ tokenTransfer
  \/ transfer_pay(1)
  \/ transfer_sign(1)
  \/ transfer_refreshUser(1)
  \/ transfer_submit(1)

SpecEvm == InitEvm /\ [][NextEvm]_vars

\* the balances of a signed-in user, read by overlapping calls of getBalance
NextBalance == \E p \in Procs : getBalance(p)

SpecBalance == InitEvm /\ [][NextBalance]_vars

\* overlapping calls of getBalance around one change of the preference
NextBalanceSwitch ==
  \/ \E p \in Procs : getBalance(p)
  \/ \E token \in {"USDC_BASE", "USDC_XLM"} :
       /\ pf.op = "none" /\ token # preferredPrimaryChain
       /\ setPreferredPrimaryChain(token)

SpecBalanceSwitch == InitEvm /\ [][NextBalanceSwitch]_vars

\* the embedded wallets of the account that is signed in and of the account
\* that is signed out: a fresh user beside a user with both wallets, in
\* either role, and a user whose stellar wallet was linked first
Devices == {<< <<>>, <<"0xA2", "GA2">> >>,
            << <<"GA1", "0xA1">>, <<"0xA2">> >>,
            << <<"0xA1", "GA1">>, <<>> >>}

\* two accounts on one device: the provider has mounted for the account that
\* is signed in, the other account is signed out; the storage is empty or
\* holds what an earlier release stored under the key of the account
InitPreference ==
  /\ user = TRUE /\ isAuthenticated = TRUE
  /\ publicKey = FALSE
  /\ accountInfo = AccountUndefined
  /\ ledger = LedgerUnfunded
  /\ isEnabling = FALSE
  /\ showInsufficientBalanceDialog = FALSE
  /\ balanceInfo = [current |-> 0, required |-> MinXlmTenths]
  /\ step = "create-payment"
  /\ loadToast = FALSE
  /\ lastLoad = "none"
  /\ inv = [p \in Procs |-> InvIdle]
  /\ \E d \in Devices : /\ privyLinked = d[1]
                         /\ parked = [NoParked EXCEPT !.linked = d[2]]
  /\ userLinked = privyLinked
  /\ merchant = TRUE
  /\ storageKV \in {[k \in StorageKeys |->
                       IF k = preferredChainStorageKey(wallets(userLinked))
                       THEN v ELSE "none"] : v \in {"none", "ethereum"}}
  /\ preferredPrimaryChain = "undefined"
  /\ isCreating = FALSE
  /\ isSwitching = FALSE
  /\ sw = SwIdle
  /\ evm = EvmIdle
  /\ BalanceInit
  /\ pf = [PfIdle EXCEPT !.op = "mount"]
  /\ cw = [c \in Creators |-> CwIdle]
  /\ session = SessionIdle

NextPreference ==
  \/ switchAccount
  \/ loadPreferredChain
  \/ \E token \in {"USDC_BASE", "USDC_XLM"} : setPreferredPrimaryChain(token)
  \/ pf.op # "mount" /\ switchWallet

SpecPreference == InitPreference /\ [][NextPreference]_vars

\* the provider and the layout of a fresh user who has signed in; the
\* provider was first rendered with this user or before the user was known; the
\* user calls switchWallet once
InitCreate ==
  /\ user = TRUE /\ isAuthenticated = TRUE
  /\ publicKey = FALSE
  /\ accountInfo = AccountUndefined
  /\ ledger = LedgerUnfunded
  /\ isEnabling = FALSE
  /\ showInsufficientBalanceDialog = FALSE
  /\ balanceInfo = [current |-> 0, required |-> MinXlmTenths]
  /\ step = "create-payment"
  /\ loadToast = FALSE
  /\ lastLoad = "none"
  /\ inv = [p \in Procs |-> InvIdle]
  /\ WalletInit({<<>>}, {TRUE})
  /\ evm = EvmIdle
  /\ BalanceInit
  /\ parked = NoParked
  /\ pf = PfIdle
  /\ session = SessionIdle
  /\ \E first \in BOOLEAN :
       cw = [c \in Creators |->
               [CwIdle EXCEPT !.closure = [present |-> first, linked |-> userLinked]]]

NextCreate ==
  \/ commitEffects
  \/ createDefaultWallet_effect
  \/ WalletHandler_effect
  \/ \E c \in Creators : handleCreateWallet_request(c)
  \/ \E c \in Creators : handleCreateWallet_refresh(c)
  \/ sw.pc # "done" /\ switchWallet

SpecCreate == InitCreate /\ [][NextCreate]_vars

\* the Stellar provider of a device on which the signed-in account changes:
\* the primary Stellar wallet is that of one account, then of the other
NextAccount ==
  \/ \E a \in StellarAddresses : setPublicKey_address(a)
  \/ refreshAccount_publicKey
  \/ \E a \in StellarAddresses : AccountFunded(a)
  \/ \E a \in StellarAddresses : getAccountInfo(a)

SpecAccount == InitWallet /\ [][NextAccount]_vars

\* ------------------------------------------------------------------------
\* Properties
\* ------------------------------------------------------------------------

\* the invocation of p came past the login check of its operation
PastLogin(p) == inv[p].op # "none" /\ user /\ isAuthenticated /\ publicKey

\* C1: whenever the native balance of the Stellar account is below 1.5 XLM,
\* from the call on, an enableUsdc invocation submits nothing to the ledger,
\* and with the account loaded it ends with the insufficient-balance outcome:
\* the dialog flag set and balanceInfo holding the balance and the threshold.
C1_InsufficientReserveGate ==
  \A p \in Procs :
    ( /\ inv[p].op = "enableUsdc" /\ inv[p].outcome # "precondition"
      /\ inv[p].had.funded /\ parseFloat(inv[p].had.xlm) < MinXlmTenths
      /\ parseFloat(ledger.xlm) < MinXlmTenths )
    => ( /\ inv[p].submits = 0
         /\ inv[p].account.st = "loaded" =>
              /\ inv[p].pc = "done" /\ inv[p].outcome = "insufficient"
              /\ showInsufficientBalanceDialog
              /\ balanceInfo = [current |-> parseFloat(inv[p].account.xlm),
                                required |-> MinXlmTenths] )

\* C4: every transaction enableUsdc or transfer builds takes its sequence
\* number from an account read made after the last successful submission,
\* that is from a read that shows the ledger's sequence number at build time.
C4_SequenceFreshness ==
  \A p \in Procs : inv[p].tx.built => inv[p].tx.src = inv[p].tx.at

\* C5: whenever the ledger answers an enableUsdc submission with 'trustline
\* already exists', the invocation ends as a soft success: the informational
\* notice is shown, the account is refreshed and no error is reported,
\* however the ledger delivers the rejection.
C5_AlreadyExistsSoftSuccess ==
  \A p \in Procs :
    ( /\ inv[p].op = "enableUsdc" /\ inv[p].pc = "done"
      /\ inv[p].answer = "op_already_exists" )
    => ( /\ inv[p].outcome = "soft"
         /\ <<"info", MsgAlreadyExists>> \in inv[p].toasts
         /\ inv[p].refreshes = 1
         /\ \A t \in inv[p].toasts : t[1] # "error" )

Steps == <<"sequence", "build", "hash", "sign", "attach", "submit">>

IsPrefix(s, t) == Len(s) <= Len(t) /\ \A i \in 1..Len(s) : s[i] = t[i]

\* C8: the steps of an invocation happen only in the order sequence, build,
\* hash, sign, attach, submit; a transaction is submitted only after
\* signRawHash returned a signature that was attached to it.
C8_StepOrder ==
  \A p \in Procs :
    /\ IsPrefix(inv[p].trace, Steps)
    /\ inv[p].submits > 0 =>
         inv[p].tx.built /\ inv[p].tx.signed /\ inv[p].trace = Steps /\ inv[p].raw = ""
    /\ inv[p].raw # "" => inv[p].submits = 0

\* a transfer that went through all six steps
C8_Witness ==
  \E p \in Procs :
    inv[p].op = "transfer" /\ inv[p].submits = 1 /\ inv[p].trace = Steps

\* C10: of two transfers that were both started before either submitted, at
\* most one returns a hash and the other ends with an error thrown to its
\* caller; an invocation in flight can always take its next step and a
\* finished one can be followed by a new transfer.
C10_RaceAtMostOne ==
  \A p \in Procs :
    /\ \A q \in inv[p].rivals :
         /\ ~(inv[p].outcome = "returned" /\ inv[q].outcome = "returned")
         /\ (inv[p].pc = "done" /\ inv[q].pc = "done") =>
              \/ inv[p].outcome = "thrown"
              \/ inv[q].outcome = "thrown"
    /\ inv[p].pc = "done" => inv[p].outcome \in {"returned", "thrown"}
    /\ inv[p].pc \notin {"idle", "done"} => ENABLED transfer(p)
    /\ (inv[p].pc = "done" /\ ledger.seq < MaxSeq) => ENABLED transfer_start(p)

\* one of two overlapping transfers succeeded, the ledger refused the other
\* for its stale sequence number
C10_Witness ==
  \E p \in Procs : \E q \in inv[p].rivals :
    /\ inv[p].outcome = "returned" /\ inv[q].pc = "done"
    /\ inv[q].answer = "tx_bad_seq" /\ inv[q].outcome = "thrown"

\* the wallet list has a wallet on the chain the preference designates
PreferenceHasWallet == HasWalletOn(userLinked, ChainOfToken(preferredPrimaryChain))

\* C2: when switchWallet() is invoked while the user has no wallet on the
\* target chain, a wallet-creation call for that chain is made before
\* preferredPrimaryChain changes value; and if that wallet creation fails,
\* preferredPrimaryChain in memory and in storage is after the return of
\* switchWallet() what it was before the call.
C2_CreateBeforeSwitch ==
  [][ /\ (sw'.noWallet /\ sw'.pc # "idle"
            /\ preferredPrimaryChain' # preferredPrimaryChain)
          => sw'.calls = <<sw'.target>>
      /\ (sw'.pc = "done" /\ sw'.noWallet /\ sw'.failed \in {"create", "refreshUser"})
          => /\ preferredPrimaryChain' = sw'.startPref
             /\ storageKV' = sw'.startStorage ]_vars

\* a switch toward a chain without wallet has returned after its creation failed
C2_Witness ==
  /\ sw.pc = "done" /\ sw.noWallet /\ sw.failed = "create"
  /\ sw.calls = <<sw.target>>
  /\ preferredPrimaryChain = sw.startPref

\* C3: in every state reached after any sequence of switchWallet() calls,
\* successful or failed, the wallet list derived from the linked accounts of
\* the user contains a wallet on the chain preferredPrimaryChain designates.
C3_PreferenceHasWallet == (sw.pc = "done") => PreferenceHasWallet

\* C7: for each denial code the wallet-transfer endpoint answers, the result
\* the EVM transfer() gives its caller carries that code, whether the denial
\* came as an HTTP error response or as a response body with success:false.
C7_DenialCodePreserved ==
  (evm.pc = "done" /\ evm.denied \in DenialCodes) => evm.result.code = evm.denied

\* C9: one invocation of transfer() or enableUsdc() sends at most one
\* submission: at most one submitTransaction on the Stellar paths and at most
\* one POST to the wallet-transfer endpoint on the EVM path, whatever
\* transport failure occurs.
C9_SingleSubmission ==
  /\ \A p \in Procs : inv[p].submits <= 1
  /\ evm.posts <= 1

\* the place of a value of TransferStep in the order
\* create-payment -> submit-transaction -> success
StepRank(s) ==
  CASE s = "create-payment" -> 1
    [] s = "submit-transaction" -> 2
    [] s = "success" -> 3

\* C11: in every step a Stellar transfer() invocation takes, its first
\* included, the observable step stays or advances along create-payment ->
\* submit-transaction -> success; it never goes back to an earlier value.
C11_StepMonotone ==
  [][ \A p \in Procs :
        (inv'[p] # inv[p] /\ inv'[p].op = "transfer")
        => StepRank(step') >= StepRank(step) ]_vars

\* C12: an EVM transfer() whose backend response has success = true and a
\* transaction resolves with {success: true, transactionHash: h} and leaves
\* the status {isLoading: false, success: true, error: null,
\* transactionHash: h}, h being response.transaction.hash.
C12_EvmSuccessResult ==
  (evm.pc = "done" /\ evm.via = "transferred")
  => /\ evm.hash \in Hashes
     /\ evm.result.kind = "result" /\ evm.result.success
     /\ evm.result.transactionHash = evm.hash
     /\ evm.status = [isLoading |-> FALSE, success |-> TRUE, error |-> "",
                      transactionHash |-> evm.hash]

\* Scenario B: the backend answered {success: true, transaction: {hash: "0xdeadbeef"}}
C12_Witness ==
  /\ evm.pc = "done" /\ evm.via = "transferred" /\ evm.hash = "0xdeadbeef"
  /\ evm.result.transactionHash = "0xdeadbeef" /\ evm.posts = 1

\* C13: an operation called with a precondition missing (EVM transfer: no
\* custodial wallet or no merchant token; enableUsdc and Stellar transfer: no
\* user, not authenticated or no public key) ends in failure with the message
\* of the missing precondition before any I/O: no account read, no signature
\* request, no ledger submission and no backend request.
C13_PreconditionFailFast ==
  /\ ( /\ evm.pc = "done" /\ evm.branch # "stellar"
       /\ preferredPrimaryChain = "USDC_BASE"
       /\ (~evm.privyWallet \/ ~evm.merchantToken) )
     => ( /\ evm.result.kind = "result" /\ ~evm.result.success
          /\ evm.result.message = MsgWalletUnavailable
          /\ evm.status = StatusError(MsgWalletUnavailable)
          /\ evm.signs = 0 /\ evm.posts = 0 )
  /\ \A p \in Procs :
       (inv[p].op # "none" /\ (~user \/ ~isAuthenticated \/ ~inv[p].key))
       => ( /\ inv[p].pc = "done" /\ inv[p].msg = MsgLogin
            /\ inv[p].outcome \in {"precondition", "thrown"}
            /\ inv[p].trace = <<>> /\ ~inv[p].tx.built
            /\ inv[p].submits = 0 /\ inv[p].refreshes = 0 )

C15_EvmBalanceFailure ==
  [][ \A p \in Procs :
        (gb'[p] # gb[p] /\ gb'[p].pc = "done" /\ gb'[p].failed \in {"native", "usdc"})
        => /\ gb'[p].outcome = "rejected"
           /\ gb'[p].error \in BalanceErrors
           /\ balances' = balances ]_vars

\* the USDC request failed after an earlier call had filled the balances
C15_Witness ==
  \E p \in Procs :
    /\ gb[p].pc = "done" /\ gb[p].failed = "usdc" /\ gb[p].outcome = "rejected"
    /\ gb[p].requests = 2 /\ balances # <<>>

\* C16: a core operation that failed never ends as a normal return without
\* an error: a transfer() through useTokenTransfer that did not transfer
\* resolves to {success: false, error} with a message and the same message
\* in its status, a Stellar transfer or enableUsdc that failed threw or
\* showed an error toast, and an account load that failed for another
\* reason than a missing account showed its error toast.
C16_NoSilentFailure ==
  /\ (evm.pc = "done" /\ ~(evm.result.kind = "result" /\ evm.result.success))
     => /\ evm.result.kind = "result"
        /\ evm.result.message # ""
  /\ \A p \in Procs :
       (inv[p].pc = "done" /\ inv[p].outcome \notin {"returned", "success", "soft"})
       => /\ inv[p].msg # ""
          /\ \/ inv[p].outcome = "thrown"
             \/ <<"error", inv[p].msg>> \in inv[p].toasts
  /\ (lastLoad \notin {"none", "ok", "notFound"}) => loadToast

\* C17: whenever the preference is loaded (the load effect of a mount, or
\* the effect that runs when the storage key changes with the wallets) and
\* the storage holds neither USDC_BASE nor USDC_XLM under the current key,
\* the in-memory preferredPrimaryChain becomes USDC_BASE.
C17_DefaultIsBase ==
  [][ LET key == preferredChainStorageKey(wallets(userLinked'))
          loaded == \/ pf'.tick # pf.tick /\ pf'.op = "load"
                    \/ sw.pc = "refreshUser"
                       /\ key # preferredChainStorageKey(wallets(userLinked))
      IN (loaded /\ storageKV'[key] \notin {"USDC_BASE", "USDC_XLM"})
         => preferredPrimaryChain' = "USDC_BASE" ]_vars

\* the load found the chain name of an earlier release under the key
C17_Witness ==
  /\ pf.op = "load"
  /\ storageKV[pf.key] = "ethereum"
  /\ pf.key = preferredChainStorageKey(wallets(userLinked))
  /\ preferredPrimaryChain = "USDC_BASE"

\* the tokens the load effect accepts
ValidTokens == {"USDC_BASE", "USDC_XLM"}

\* the list in the opposite order
Reverse(s) == [i \in 1..Len(s) |-> s[Len(s) + 1 - i]]

C19_SetIsIdempotent ==
  [][ LET direct == pf'.tick # pf.tick /\ pf'.op = "set"
          switched == sw.pc = "update" /\ sw'.pc = "refetch"
          v == IF direct THEN pf'.v ELSE sw.newChain
          key == preferredChainStorageKey(wallets(userLinked'))
      IN (direct \/ switched)
         => /\ preferredPrimaryChain' = v
            /\ getItem(storageKV', key) = v
            /\ (preferredPrimaryChain = v /\ getItem(storageKV, key) = v)
               => /\ preferredPrimaryChain' = preferredPrimaryChain
                  /\ storageKV' = storageKV ]_vars

\* the chain primaryWallet looks for: ethereum for USDC_BASE, stellar for
\* USDC_XLM and while the preference is not loaded
ChainSought == IF preferredPrimaryChain = "USDC_BASE" THEN "ethereum" ELSE "stellar"

\* C20: in every state primaryWallet is the first wallet of the list on the
\* chain of the preference when the list has one, otherwise the first
\* wallet of the list when the list is not empty, otherwise null; it has a
\* value for the empty list and before the preference is loaded.
C20_PrimaryWallet ==
  LET ws == wallets(userLinked)
      pw == primaryWallet(ws, preferredPrimaryChain)
      onChain == {i \in DOMAIN ws : ChainOf(ws[i]) = ChainSought}
  IN /\ pw \in Range(ws) \cup {"null"}
     /\ onChain # {} => \E i \in onChain : /\ pw = ws[i]
                                           /\ \A j \in onChain : i <= j
     /\ (onChain = {} /\ ws # <<>>) => pw = ws[1]
     /\ ws = <<>> <=> pw = "null"

\* the preference is USDC_XLM and the stellar wallet is the second of the list
C20_Witness ==
  /\ pf.op \in {"load", "set"}
  /\ preferredPrimaryChain = "USDC_XLM"
  /\ Len(wallets(userLinked)) = 2
  /\ ChainOf(wallets(userLinked)[1]) = "ethereum"
  /\ primaryWallet(wallets(userLinked), preferredPrimaryChain) = wallets(userLinked)[2]

\* C21: a transfer() on the EVM path that was given an amount that does
\* not parse to a positive decimal requests no signature and sends no
\* request to the backend, and ends in failure.
C21_AmountRejected ==
  (evm.branch = "evm" /\ ~isPositiveAmount(evm.amount))
  => /\ evm.signs = 0
     /\ evm.posts = 0
     /\ evm.pc = "done" => (evm.result.kind = "result" /\ ~evm.result.success)

\* the texts getStellarErrorMessage produces
Translations == {getStellarErrorMessage(c) : c \in RawCodes \cup {"undefined"}}

\* C22: when the ledger rejected the submission of enableUsdc or of the
\* Stellar transfer for another reason than an existing trustline, the
\* message of the error the invocation ends with is a text produced by
\* getStellarErrorMessage, never a raw result code or the message of the
\* raw error of the Horizon client.
C22_RejectionTranslated ==
  \A p \in Procs :
    ( /\ inv[p].pc = "done"
      /\ inv[p].answer \in RawCodes
      /\ inv[p].outcome \notin {"soft", "success"} )
    => /\ inv[p].msg \in Translations
       /\ inv[p].msg \notin RawCodes \cup {RawBadRequest}

\* the wallet-creation requests in flight for a chain
CreationsInFlight(chain) ==
  Cardinality({c \in Creators : cw[c].pc = "create" /\ cw[c].chain = chain})
  + (IF sw.pc = "create" /\ sw.target = chain THEN 1 ELSE 0)

\* C23: under any interleaving of the auto-create effect, the createWallet
\* call of the layout and switchWallet, at most one wallet-creation request
\* is in flight for a chain at a time and the user never holds two wallets
\* on the same chain.
C23_OneWalletPerChain ==
  \A chain \in {"ethereum", "stellar"} :
    /\ CreationsInFlight(chain) <= 1
    /\ Cardinality({a \in Range(privyLinked) : ChainOf(a) = chain}) <= 1

C25_BranchMatchesPreference ==
  [][ /\ (evm'.signs > evm.signs \/ evm'.posts > evm.posts)
         => /\ evm'.preferred = "USDC_BASE" /\ evm'.branch = "evm"
            /\ inv' = inv
      /\ inv' # inv
         => /\ evm'.preferred = "USDC_XLM" /\ evm'.branch = "stellar"
            /\ evm'.signs = 0 /\ evm'.posts = 0
      /\ evm'.branch = "evm" => evm'.preferred = "USDC_BASE"
      /\ evm'.branch = "stellar" => evm'.preferred = "USDC_XLM" ]_vars

\* a transfer under USDC_XLM submitted its payment to the ledger
C25_Witness ==
  /\ evm.branch = "stellar" /\ evm.preferred = "USDC_XLM"
  /\ evm.pc = "done" /\ inv[1].submits = 1

\* C26: when switchWallet() has completed successfully, also when it created
\* the wallet of the target chain, loading the preference under the storage
\* key derived from the user's wallet addresses of that moment yields the
\* preference the switch selected.
C26_SwitchSurvivesReload ==
  (sw.pc = "done" /\ sw.toast = "success")
  => LoadPreferred(storageKV, preferredChainStorageKey(wallets(userLinked)))
       = sw.newChain

\* C27: once a transfer() of useTokenTransfer has returned, with a success,
\* with a failure or without running a branch, status.isLoading is false;
\* isLoading is true only while a transfer() is in flight.
C27_LoadingOnlyInFlight ==
  /\ evm.pc = "done" => ~evm.status.isLoading
  /\ evm.status.isLoading => evm.pc \notin {"idle", "done"}

\* C28: once no account load is in flight, a loaded account snapshot is the
\* snapshot of the address in publicKey; after setPublicKey with another
\* address the snapshot of the previous address is not exposed.
C28_SnapshotOfPublicKey ==
  (session.loading = {} /\ session.accountInfo.st = "loaded")
  => session.accountInfo.account_id = session.publicKey

\* the chain the entries of the balances state were fetched from
BalancesChain(list) ==
  IF list = <<>> THEN "none"
  ELSE IF list[1].asset \in {"eth", "usdc"} THEN "ethereum"
  ELSE "stellar"

\* C29: when every overlapping getBalance() has completed and one of them
\* returned balances for the chain preferred now, the balances state holds
\* balances of that chain, never the late result of a call made for the
\* previous chain; and isBalanceLoading is false only when no getBalance()
\* is in flight.
C29_BalancesOfPreferredChain ==
  /\ ( /\ \A p \in Procs : gb[p].pc \in {"idle", "done"}
       /\ \E p \in Procs :
            /\ gb[p].pc = "done" /\ gb[p].outcome = "returned" /\ gb[p].value # <<>>
            /\ BalancesChain(gb[p].value) = ChainOfToken(preferredPrimaryChain) )
     => BalancesChain(balances) \in {"none", ChainOfToken(preferredPrimaryChain)}
  /\ ~isBalanceLoading => \A p \in Procs : gb[p].pc \in {"idle", "done"}

\* C30: isEnabling is true exactly while at least one enableUsdc() is past
\* its precondition checks and not finished: every exit path resets it, and
\* with two overlapping invocations it does not become false while the
\* other one is still in flight.
C30_EnablingWhileInFlight ==
  isEnabling <=> \E p \in Procs :
                   inv[p].op = "enableUsdc" /\ inv[p].pc \notin {"idle", "done"}

====
